---- MODULE Spec2Model ----
(***************************************************************************)
(* The Worker node of distributed3/worker.py as a state machine.           *)
(*                                                                         *)
(* One Worker object, the single-threaded tornado event loop that runs its *)
(* coroutines, and the Center it talks to.  A coroutine runs without       *)
(* interruption from one `yield` to the next, so every action below is the *)
(* code between two suspension points of one handler.  What the Center,    *)
(* the peers and the user function answer is chosen with \E.               *)
(*                                                                         *)
(* A handler record keeps the arguments and locals that the rest of the    *)
(* coroutine still reads, and what it has sent and returned; a local that  *)
(* is dead is put back to its default.  job_counter (worker.py:128-129)    *)
(* only numbers the log lines and is left out.                             *)
(***************************************************************************)
EXTENDS Integers, Sequences, FiniteSets, TLC

\* ------------------------------------------------------------------ bounds

\* Handlers that may be in flight on the event loop at the same time.
MaxCalls == 2

\* ------------------------------------------------------------------ values

Keys == {"x", "y"}

Calls == 1..MaxCalls

\* The lists of keys a request carries (needed, keys): empty, one key, a
\* key twice, two keys.
KeyLists == {<<>>, <<"x">>, <<"y">>, <<"x", "x">>, <<"x", "y">>}

\* A stored value: a plain value, or an exception object (worker.py:135
\* stores the exception itself; v is its message).
Val(n) == [kind |-> "value", v |-> n]

Failure(m) == [kind |-> "failure", v |-> m]

\* An argument that keys_to_data left as the key it was.
Ref == [kind |-> "ref", v |-> 0]

\* No value: the default of a local that holds nothing.
None == [kind |-> "none", v |-> 0]

\* The exception a user function raises, with its message.
Boom == Failure(1)

\* What a user function does: return a value or raise an exception.
Outcomes ==
    {[raised |-> FALSE, value |-> Val(1)],
     [raised |-> TRUE, value |-> Boom]}

\* What the peers hold for each key, as the Center's gather returns it.
PeerData == [k \in Keys |-> Val(2)]

\* Payloads of update_data: a dict from some keys to values.
Payloads == UNION {[S -> {Val(1)}] : S \in SUBSET Keys}

\* Answers of the Center to a call: the literal OK, or another value.
Answers == {"OK", "other"}

\* How an rpc ends: with an answer, or with no answer at all (the Center is
\* unreachable or the connection breaks, and the yield raises).
Replies == Answers \cup {"fail"}

Range(s) == {s[i] : i \in DOMAIN s}

\* ------------------------------------------------------------------ state

VARIABLES
    status,       \* self.status
    listening,    \* the listener of the Server is bound (listen / stop)
    startPc,      \* position of the _start callback
    stream,       \* a client connection the Server accepted
    data,         \* self.data, a dict: a function whose domain is its keys
    calls,        \* the handler invocations, one record per slot
    has_what      \* the keys the Center lists for this Worker

vars == <<status, listening, startPc, stream, data, calls, has_what>>

\* A handler slot nobody uses.
Idle ==
    [op |-> "none", pc |-> "idle", key |-> "none",
     needed |-> <<>>, args |-> <<>>, args2 |-> <<>>, ran |-> FALSE,
     result |-> None, out_response |-> "none", response |-> "none",
     payload |-> <<>>, keys |-> <<>>, report |-> FALSE,
     sent |-> <<>>, ret |-> "none", got |-> <<>>, exc |-> "none"]

\* ------------------------------------------------------------------ helpers

\* toolz.merge(a, b): the later dict wins (worker.py:118);
\* dict.update is the same on the store (worker.py:153).
merge(a, b) ==
    [k \in (DOMAIN a) \cup (DOMAIN b) |-> IF k \in DOMAIN b THEN b[k] ELSE a[k]]

\* An assignment that keeps the value a key already has.
SetItemFirstWins(d, k, v) ==
    [x \in (DOMAIN d) \cup {k} |-> IF x \in DOMAIN d THEN d[x] ELSE v]

\* An assignment that is lost: the store stays as it was.
SetItemDropped(d, k, v) == d

\* self.data[key] = result
SetItem(d, k, v) == [x \in (DOMAIN d) \cup {k} |-> IF x = k THEN v ELSE d[x]]

\* for key in keys: if key in self.data: del self.data[key]
DelKeys(d, ks) == [x \in (DOMAIN d) \ Range(ks) |-> d[x]]

\* A needed that is not filtered against the store.
MissingUnfiltered(needed, d) == needed

\* needed = [n for n in needed if n not in self.data]
Missing(needed, d) == SelectSeq(needed, LAMBDA n : n \notin DOMAIN d)

\* dict(zip(needed, other)): a key listed twice keeps its last value.
Zip(needed, other) ==
    [k \in Range(needed) |->
        other[CHOOSE i \in DOMAIN needed :
                 /\ needed[i] = k
                 /\ \A j \in DOMAIN needed : needed[j] = k => j <= i]]

\* What gather_strict_from_center returns for a list of keys that the
\* Center can all locate: their values, in the order asked.
Gathered(needed) == [i \in DOMAIN needed |-> PeerData[needed[i]]]

\* data2 after a gather (worker.py:118).
Data2(d, needed, other) == merge(d, Zip(needed, other))

\* keys_to_data(args, data2): every argument that is a key of data2 becomes
\* its value, every other argument stays what it was.
keys_to_data(args, d) ==
    [i \in DOMAIN args |-> IF args[i] \in DOMAIN d THEN d[args[i]] ELSE Ref]

\* The arguments of a task: it is called on the first key it needs.
ArgsOf(needed) == IF needed = <<>> THEN <<>> ELSE <<needed[1]>>

\* out_response of work for an outcome (worker.py:133, 140).
OutResponse(outcome) == IF outcome.raised THEN "error" ELSE "success"

\* A work that answers error when the report was not accepted.
WorkReturnChecked(out_response, response) ==
    IF response = "OK" THEN out_response ELSE "error"

\* What work returns once add_keys was answered (worker.py:146-149).
WorkReturn(out_response, response) == out_response

\* list(data): the keys of a dict, in the order the dict yields them.
KeyOrder == <<"x", "y">>

ListOf(d) == SelectSeq(KeyOrder, LAMBDA k : k \in DOMAIN d)

\* {k: self.data[k] for k in keys}
GetItems(d, ks) == [k \in Range(ks) |-> d[k]]

\* The slot a new request is given: the lowest one no handler is in.
Free(c) ==
    /\ calls[c].pc = "idle"
    /\ \A b \in Calls : b < c => calls[b].pc # "idle"

Rpc(name, ks) == [rpc |-> name, keys |-> ks]

\* The keys the Center lists for the Worker once it has taken a call: an
\* add_keys adds its keys, a remove_keys takes its keys away, an unregister
\* drops the Worker with all its keys.
Taken(hw, msg) ==
    IF msg.rpc = "add_keys" THEN hw \cup Range(msg.keys)
    ELSE IF msg.rpc = "remove_keys" THEN hw \ Range(msg.keys)
    ELSE {}

\* What the Center may list after a call that ended with resp: a call
\* answered OK was taken, a call answered otherwise was refused, and a call
\* that got no answer was taken or was not.
Registry(hw, msg, resp) ==
    IF resp = "OK" THEN {Taken(hw, msg)}
    ELSE IF resp = "fail" THEN {hw, Taken(hw, msg)}
    ELSE {hw}

\* A handler that ended with an exception: its locals as they were.
Raise(r, exc) == [r EXCEPT !.pc = "raised", !.exc = exc]

\* ------------------------------------------------------------------ init

\* The state __init__ leaves (worker.py:62-80).
Init ==
    /\ status = "running"
    /\ listening = FALSE
    /\ startPc = "init"
    /\ stream = FALSE
    /\ data = <<>>
    /\ calls = [c \in Calls |-> Idle]
    /\ has_what = {}

\* ------------------------------------------------------------------ lifecycle

\* start / _start up to its yield: listen, then send register.
start ==
    /\ startPc = "init"
    /\ listening' = TRUE
    /\ startPc' = "registering"
    /\ UNCHANGED <<status, stream, data, calls, has_what>>

\* _start after the yield: assert resp == b'OK'.  A failed assert or a
\* failed rpc ends the callback with an exception and changes nothing else.
start_reply ==
    /\ startPc = "registering"
    /\ \E resp \in Replies :
          startPc' = IF resp = "OK" THEN "registered" ELSE "failed"
    /\ UNCHANGED <<status, listening, stream, data, calls, has_what>>

\* A client connects to the listener; requests are dispatched on streams
\* that were established before.
handle_stream ==
    /\ listening
    /\ ~stream
    /\ stream' = TRUE
    /\ UNCHANGED <<status, listening, startPc, data, calls, has_what>>

\* The Server writes what the handler returned (or its error) to the
\* stream; the handler is over.
respond(c) ==
    /\ calls[c].pc \in {"done", "raised"}
    /\ calls' = [calls EXCEPT ![c] = Idle]
    /\ UNCHANGED <<status, listening, startPc, stream, data, has_what>>

\* A _close that stops the listener before it sends unregister.
terminate_stopping(c) ==
    /\ stream
    /\ Free(c)
    /\ listening' = FALSE
    /\ calls' = [calls EXCEPT ![c] =
                    [Idle EXCEPT !.op = "terminate", !.pc = "unregister",
                                 !.sent = <<Rpc("unregister", <<>>)>>]]
    /\ UNCHANGED <<status, startPc, stream, data, has_what>>

\* terminate / _close up to its yield: send unregister.
terminate(c) ==
    /\ stream
    /\ Free(c)
    /\ calls' = [calls EXCEPT ![c] =
                    [Idle EXCEPT !.op = "terminate", !.pc = "unregister",
                                 !.sent = <<Rpc("unregister", <<>>)>>]]
    /\ UNCHANGED <<status, listening, startPc, stream, data, has_what>>

\* _close after the yield: stop the listener, status = 'closed'.
close_reply(c) ==
    /\ calls[c].pc = "unregister"
    /\ \E resp \in Replies :
          /\ has_what' \in Registry(has_what, calls[c].sent[1], resp)
          /\ IF resp = "fail"
             THEN /\ calls' = [calls EXCEPT ![c] = Raise(calls[c], "transport")]
                  /\ UNCHANGED <<status, listening>>
             ELSE /\ listening' = FALSE
                  /\ status' = "closed"
                  /\ calls' = [calls EXCEPT ![c].pc = "done", ![c].ret = "None"]
    /\ UNCHANGED <<startPc, stream, data>>

\* ------------------------------------------------------------------ compute

\* work up to its first yield: connect to the Center.
work(c, key, needed) ==
    /\ stream
    /\ Free(c)
    /\ calls' = [calls EXCEPT ![c] =
                    [Idle EXCEPT !.op = "compute", !.pc = "connect",
                                 !.key = key, !.needed = needed,
                                 !.args = ArgsOf(needed)]]
    /\ UNCHANGED <<status, listening, startPc, stream, data, has_what>>

\* The job is handed to the pool with the arguments filled from data2.
Submitted(r, data2) ==
    [r EXCEPT !.pc = "exec", !.ran = TRUE, !.needed = <<>>, !.args = <<>>,
              !.args2 = keys_to_data(r.args, data2)]

\* work after connect: filter needed; ask the Center to gather the keys of
\* needed (the request of a handler at "gather" is its needed), or submit.
work_connected(c) ==
    /\ calls[c].pc = "connect"
    /\ \E ok \in BOOLEAN :
          IF ~ok
          THEN calls' = [calls EXCEPT ![c] = Raise(calls[c], "transport")]
          ELSE LET needed == Missing(calls[c].needed, data)
                   r == [calls[c] EXCEPT !.needed = needed]
               IN  IF needed # <<>>
                   THEN calls' = [calls EXCEPT ![c] = [r EXCEPT !.pc = "gather"]]
                   ELSE calls' = [calls EXCEPT ![c] = Submitted(r, data)]
    /\ UNCHANGED <<status, listening, startPc, stream, data, has_what>>

\* A work that keeps what it fetched: the gathered values go into the store.
work_gathered_storing(c) ==
    /\ calls[c].pc = "gather"
    /\ \E ok \in BOOLEAN :
          IF ~ok
          THEN /\ calls' = [calls EXCEPT ![c] = Raise(calls[c], "gather")]
               /\ data' = data
          ELSE LET needed == calls[c].needed
                   data2 == Data2(data, needed, Gathered(needed))
               IN  /\ calls' = [calls EXCEPT ![c] = Submitted(calls[c], data2)]
                   /\ data' = data2
    /\ UNCHANGED <<status, listening, startPc, stream, has_what>>

\* work after gather_strict_from_center: it returned the values, or raised
\* because a key could not be located or fetched.
work_gathered(c) ==
    /\ calls[c].pc = "gather"
    /\ \E ok \in BOOLEAN :
          IF ~ok
          THEN calls' = [calls EXCEPT ![c] = Raise(calls[c], "gather")]
          ELSE LET needed == calls[c].needed
                   data2 == Data2(data, needed, Gathered(needed))
               IN  calls' = [calls EXCEPT ![c] = Submitted(calls[c], data2)]
    /\ UNCHANGED <<status, listening, startPc, stream, data, has_what>>

\* work after the job finished: set result and out_response, store the
\* result under key, send add_keys.
work_executed(c) ==
    /\ calls[c].pc = "exec"
    /\ \E outcome \in Outcomes :
          /\ data' = SetItem(data, calls[c].key, outcome.value)
          /\ calls' = [calls EXCEPT
                ![c].pc = "report",
                ![c].args2 = <<>>,
                ![c].result = outcome.value,
                ![c].out_response = OutResponse(outcome),
                ![c].sent = Append(calls[c].sent,
                                   Rpc("add_keys", <<calls[c].key>>))]
    /\ UNCHANGED <<status, listening, startPc, stream, has_what>>

\* work after add_keys: log a response that is not OK, return out_response.
work_reported(c) ==
    /\ calls[c].op = "compute"
    /\ calls[c].pc = "report"
    /\ \E resp \in Replies :
          /\ has_what' \in Registry(has_what, calls[c].sent[1], resp)
          /\ IF resp = "fail"
             THEN calls' = [calls EXCEPT ![c] = Raise(calls[c], "transport")]
             ELSE calls' = [calls EXCEPT
                    ![c].pc = "done",
                    ![c].response = resp,
                    ![c].ret = WorkReturn(calls[c].out_response, resp)]
    /\ UNCHANGED <<status, listening, startPc, stream, data>>

\* ------------------------------------------------------------------ data

\* update_data up to its yield, or to its return when report is false.
update_data(c, payload, report) ==
    /\ stream
    /\ Free(c)
    /\ data' = merge(data, payload)
    /\ LET r == [Idle EXCEPT !.op = "update_data", !.payload = payload,
                             !.report = report]
       IN  calls' = [calls EXCEPT ![c] =
              IF report
              THEN [r EXCEPT !.pc = "report",
                             !.sent = <<Rpc("add_keys", ListOf(payload))>>]
              ELSE [r EXCEPT !.pc = "done", !.ret = "OK"]]
    /\ UNCHANGED <<status, listening, startPc, stream, has_what>>

\* update_data after add_keys: the answer is not looked at.
update_data_reported(c) ==
    /\ calls[c].op = "update_data"
    /\ calls[c].pc = "report"
    /\ \E resp \in Replies :
          /\ has_what' \in Registry(has_what, calls[c].sent[1], resp)
          /\ IF resp = "fail"
             THEN calls' = [calls EXCEPT ![c] = Raise(calls[c], "transport")]
             ELSE calls' = [calls EXCEPT ![c].pc = "done", ![c].ret = "OK"]
    /\ UNCHANGED <<status, listening, startPc, stream, data>>

\* delete_data up to its yield, or to its return when report is false.
delete_data(c, keys, report) ==
    /\ stream
    /\ Free(c)
    /\ data' = DelKeys(data, keys)
    /\ LET r == [Idle EXCEPT !.op = "delete_data", !.keys = keys,
                             !.report = report]
       IN  calls' = [calls EXCEPT ![c] =
              IF report
              THEN [r EXCEPT !.pc = "report",
                             !.sent = <<Rpc("remove_keys", keys)>>]
              ELSE [r EXCEPT !.pc = "done", !.ret = "OK"]]
    /\ UNCHANGED <<status, listening, startPc, stream, has_what>>

\* delete_data after remove_keys: the answer is not looked at.
delete_data_reported(c) ==
    /\ calls[c].op = "delete_data"
    /\ calls[c].pc = "report"
    /\ \E resp \in Replies :
          /\ has_what' \in Registry(has_what, calls[c].sent[1], resp)
          /\ IF resp = "fail"
             THEN calls' = [calls EXCEPT ![c] = Raise(calls[c], "transport")]
             ELSE calls' = [calls EXCEPT ![c].pc = "done", ![c].ret = "OK"]
    /\ UNCHANGED <<status, listening, startPc, stream, data>>

\* A get_data that is served only when no job is running, as it would be
\* were the function run on the event loop.
get_data_after_jobs(c, keys) ==
    /\ stream
    /\ Free(c)
    /\ \A b \in Calls : calls[b].pc # "exec"
    /\ LET r == [Idle EXCEPT !.op = "get_data", !.keys = keys]
       IN  calls' = [calls EXCEPT ![c] =
              IF Range(keys) \subseteq DOMAIN data
              THEN [r EXCEPT !.pc = "done", !.ret = "mapping",
                             !.got = GetItems(data, keys)]
              ELSE Raise(r, "KeyError")]
    /\ UNCHANGED <<status, listening, startPc, stream, data, has_what>>

\* A get_data that answers with the keys it has and leaves the others out.
get_data_partial(c, keys) ==
    /\ stream
    /\ Free(c)
    /\ LET r == [Idle EXCEPT !.op = "get_data", !.keys = keys]
           found == SelectSeq(keys, LAMBDA k : k \in DOMAIN data)
       IN  calls' = [calls EXCEPT ![c] =
              [r EXCEPT !.pc = "done", !.ret = "mapping",
                        !.got = GetItems(data, found)]]
    /\ UNCHANGED <<status, listening, startPc, stream, data, has_what>>

\* get_data: no yield; a key that is absent raises KeyError.
get_data(c, keys) ==
    /\ stream
    /\ Free(c)
    /\ LET r == [Idle EXCEPT !.op = "get_data", !.keys = keys]
       IN  calls' = [calls EXCEPT ![c] =
              IF Range(keys) \subseteq DOMAIN data
              THEN [r EXCEPT !.pc = "done", !.ret = "mapping",
                             !.got = GetItems(data, keys)]
              ELSE Raise(r, "KeyError")]
    /\ UNCHANGED <<status, listening, startPc, stream, data, has_what>>

\* ------------------------------------------------------------------ spec

Next ==
    \/ start
    \/ start_reply
    \/ handle_stream
    \/ \E c \in Calls : respond(c)
    \/ \E c \in Calls : terminate(c)
    \/ \E c \in Calls : close_reply(c)
    \/ \E c \in Calls, k \in Keys, n \in KeyLists : work(c, k, n)
    \/ \E c \in Calls : work_connected(c)
    \/ \E c \in Calls : work_gathered(c)
    \/ \E c \in Calls : work_executed(c)
    \/ \E c \in Calls : work_reported(c)
    \/ \E c \in Calls, p \in Payloads, r \in BOOLEAN : update_data(c, p, r)
    \/ \E c \in Calls : update_data_reported(c)
    \/ \E c \in Calls, ks \in KeyLists, r \in BOOLEAN : delete_data(c, ks, r)
    \/ \E c \in Calls : delete_data_reported(c)
    \/ \E c \in Calls, ks \in KeyLists : get_data(c, ks)

Spec == Init /\ [][Next]_vars

\* ------------------------------------------------------------------ claims

IsCompute(c) == calls[c].op = "compute"

\* The handler in slot c is over: it returned or it raised.
Over(c) == calls[c].pc \in {"done", "raised"}

\* The step in which the compute call of slot c stores its result.
StoreStep(c) == calls[c].pc = "exec" /\ calls'[c].pc = "report"

\* The step in which a request is dispatched to slot c.
DispatchStep(c) == calls[c].pc = "idle" /\ calls'[c].pc # "idle"

\* C1: every compute call whose user function returns a value v ends by
\* responding success; the step that stores the result leaves
\* LocalStore[key] = v and the step that returns leaves LocalStore as it is;
\* and a get_data([key]) dispatched while LocalStore[key] is still v
\* returns exactly {key: v}.
C1_ReturnedValueStored ==
    /\ [](\A c \in Calls :
            (IsCompute(c) /\ Over(c) /\ calls[c].result.kind = "value")
               => (calls[c].pc = "done" /\ calls[c].ret = "success"))
    /\ [][\A c \in Calls :
            /\ (StoreStep(c) /\ calls'[c].result.kind = "value")
                  => /\ calls[c].key \in DOMAIN data'
                     /\ data'[calls[c].key] = calls'[c].result
            /\ (IsCompute(c) /\ calls[c].pc = "report" /\ Over(c)')
                  => data' = data
            /\ \A g \in Calls :
                  (/\ IsCompute(c)
                   /\ calls[c].pc \in {"report", "done"}
                   /\ calls[c].result.kind = "value"
                   /\ calls[c].key \in DOMAIN data
                   /\ data[calls[c].key] = calls[c].result
                   /\ DispatchStep(g)
                   /\ calls'[g].op = "get_data"
                   /\ calls'[g].keys = <<calls[c].key>>)
                  => (/\ calls'[g].pc = "done"
                      /\ calls'[g].got =
                            [k \in {calls[c].key} |-> calls[c].result])]_vars

\* C2: every compute call whose user function raises ends by responding
\* error, never by raising itself, and the step that stores the outcome
\* leaves in LocalStore[key] a failure record with the exception's message.
C2_RaisedExceptionStored ==
    /\ [](\A c \in Calls :
            (IsCompute(c) /\ Over(c) /\ calls[c].out_response = "error")
               => (calls[c].pc = "done" /\ calls[c].ret = "error"))
    /\ [][\A c \in Calls :
            (StoreStep(c) /\ calls'[c].out_response = "error")
               => /\ calls[c].key \in DOMAIN data'
                  /\ data'[calls[c].key] = Boom]_vars

\* C3: a compute call whose gather failed (a needed key was not local and
\* the Center could not locate or fetch it) ends by responding error, with
\* a failure record stored under its key and its function never run.
C3_GatherFailureRecorded ==
    \A c \in Calls :
       (IsCompute(c) /\ calls[c].exc = "gather")
          => /\ calls[c].pc = "done"
             /\ calls[c].ret = "error"
             /\ ~calls[c].ran
             /\ calls[c].key \in DOMAIN data
             /\ data[calls[c].key].kind = "failure"

C5_ReportFailureNotRaised ==
    \A c \in Calls :
       (IsCompute(c) /\ Over(c) /\ calls[c].result # None)
          => (calls[c].pc = "done" /\ calls[c].ret = calls[c].out_response)

\* C6: once the status is closed, a terminate that is called sends no
\* unregister call, and the status stays closed.
C6_TerminateIdempotent ==
    [][status = "closed"
          => /\ status' = "closed"
             /\ \A c \in Calls :
                   calls'[c].pc = "unregister" => calls[c].pc = "unregister"]_vars

\* C7: once the status is closed, every compute, update_data or delete_data
\* request that arrives is rejected: the handler is over at once without
\* answering success or OK, LocalStore is unchanged, no function is run and
\* nothing is reported.
C7_ClosedRejectsWork ==
    [][status = "closed"
          => \A c \in Calls :
                (/\ DispatchStep(c)
                 /\ calls'[c].op \in {"compute", "update_data", "delete_data"})
                   => /\ Over(c)'
                      /\ calls'[c].ret \notin {"success", "OK"}
                      /\ data' = data
                      /\ ~calls'[c].ran
                      /\ calls'[c].sent = <<>>]_vars

\* C8: the status is running, and a request is served, only when the Center
\* has acknowledged register with OK; when registration was rejected or the
\* Center unreachable, the status is not running and no request is served.
C8_RunningOnlyRegistered ==
    /\ status = "running" => startPc = "registered"
    /\ (\E c \in Calls : calls[c].pc # "idle") => startPc = "registered"
    /\ startPc = "failed"
          => (status # "running" /\ \A c \in Calls : calls[c].pc = "idle")

\* C9: every delete_data call returns OK, the second of two as the first,
\* and on any store its step leaves none of its keys in LocalStore and every
\* other key with its value.
C9_DeleteIdempotent ==
    /\ [](\A c \in Calls :
            (calls[c].op = "delete_data" /\ Over(c))
               => (calls[c].pc = "done" /\ calls[c].ret = "OK"))
    /\ [][\A c \in Calls :
            (DispatchStep(c) /\ calls'[c].op = "delete_data")
               => /\ DOMAIN data' = (DOMAIN data) \ Range(calls'[c].keys)
                  /\ \A k \in DOMAIN data' : data'[k] = data[k]]_vars

\* C10: update_data(data, report) sets LocalStore[k] to data[k] for every
\* key of data and leaves the other keys alone, returns OK, has sent exactly
\* one add_keys with exactly the keys of data when report is true and
\* nothing when it is false, and a get_data over those keys that follows
\* while they are as written returns exactly data.
C10_UpdateMergesAndReports ==
    /\ [](\A c \in Calls :
            (calls[c].op = "update_data" /\ Over(c))
               => /\ calls[c].pc = "done"
                  /\ calls[c].ret = "OK"
                  /\ calls[c].report
                        => /\ Len(calls[c].sent) = 1
                           /\ calls[c].sent[1].rpc = "add_keys"
                           /\ Range(calls[c].sent[1].keys)
                                 = DOMAIN calls[c].payload
                  /\ ~calls[c].report => calls[c].sent = <<>>)
    /\ [][\A c \in Calls :
            /\ (DispatchStep(c) /\ calls'[c].op = "update_data")
                  => /\ DOMAIN data'
                           = (DOMAIN data) \cup DOMAIN calls'[c].payload
                     /\ \A k \in DOMAIN data' :
                           data'[k] = IF k \in DOMAIN calls'[c].payload
                                      THEN calls'[c].payload[k]
                                      ELSE data[k]
            /\ \A g \in Calls :
                  (/\ calls[c].op = "update_data"
                   /\ calls[c].pc \in {"report", "done"}
                   /\ DOMAIN calls[c].payload \subseteq DOMAIN data
                   /\ \A k \in DOMAIN calls[c].payload :
                         data[k] = calls[c].payload[k]
                   /\ DispatchStep(g)
                   /\ calls'[g].op = "get_data"
                   /\ Range(calls'[g].keys) = DOMAIN calls[c].payload)
                  => (/\ calls'[g].pc = "done"
                      /\ calls'[g].got = calls[c].payload)]_vars

\* C11: a get_data(keys) with a requested key that is absent from LocalStore
\* ends by raising KeyError, which is no computation status, and returns no
\* mapping, not even of the keys that are present; a get_data whose keys are
\* all present returns exactly the current value of each requested key;
\* either way LocalStore is unchanged and nothing is sent to the Center.
C11_GetDataMissingKeyFails ==
    [][\A c \in Calls :
          (DispatchStep(c) /\ calls'[c].op = "get_data")
             => /\ data' = data
                /\ calls'[c].sent = <<>>
                /\ IF Range(calls'[c].keys) \subseteq DOMAIN data
                   THEN /\ calls'[c].pc = "done"
                        /\ DOMAIN calls'[c].got = Range(calls'[c].keys)
                        /\ \A k \in Range(calls'[c].keys) :
                              calls'[c].got[k] = data[k]
                   ELSE /\ calls'[c].pc = "raised"
                        /\ calls'[c].exc = "KeyError"
                        /\ calls'[c].ret = "none"
                        /\ calls'[c].got = <<>>]_vars

\* A get_data over x and y raised KeyError while LocalStore held one of the
\* two keys, and returned nothing.
C11_Witness ==
    \E c \in Calls :
       /\ calls[c].op = "get_data"
       /\ calls[c].keys = <<"x", "y">>
       /\ calls[c].pc = "raised"
       /\ calls[c].exc = "KeyError"
       /\ calls[c].got = <<>>
       /\ DOMAIN data = {"x"}

\* C12: the gather request of a compute call, built in the step that follows
\* the connect, is not empty, names only keys of needed and names no key
\* that is in LocalStore in that step; when needed is empty or all its keys
\* are in LocalStore the call sends no gather request.
C12_GatherOnlyMissingKeys ==
    /\ [](\A c \in Calls : calls[c].pc = "gather" => calls[c].needed # <<>>)
    /\ [][\A c \in Calls :
            (IsCompute(c) /\ calls[c].pc = "connect")
               => /\ calls'[c].pc = "gather"
                     => /\ Range(calls'[c].needed) \cap DOMAIN data = {}
                        /\ Range(calls'[c].needed)
                              \subseteq Range(calls[c].needed)
                  /\ Range(calls[c].needed) \subseteq DOMAIN data
                     => calls'[c].pc # "gather"]_vars

\* A compute call that needed x and y asks the Center for y alone, x being
\* in LocalStore.
C12_Witness ==
    \E c \in Calls :
       /\ IsCompute(c)
       /\ calls[c].pc = "gather"
       /\ calls[c].args = <<"x">>
       /\ calls[c].needed = <<"y">>
       /\ "x" \in DOMAIN data

\* C13: the gather request of a compute call names each missing key at most
\* once, also when needed lists a key more than once.
C13_GatherRequestDeduplicated ==
    \A c \in Calls :
       calls[c].pc = "gather"
          => \A i, j \in DOMAIN calls[c].needed :
                calls[c].needed[i] = calls[c].needed[j] => i = j

\* C14: no step of a compute call writes a fetched value into LocalStore:
\* every step of the call leaves each LocalStore entry other than key as
\* it was, and the steps before the one that stores the result (dispatch,
\* connect, gather) leave LocalStore as it was.
C14_FetchedValuesNotStored ==
    [][\A c \in Calls :
          (calls'[c].op = "compute" /\ calls'[c] # calls[c])
             => /\ \A k \in Keys \ {calls'[c].key} :
                      /\ k \in DOMAIN data' <=> k \in DOMAIN data
                      /\ k \in DOMAIN data => data'[k] = data[k]
                /\ ~StoreStep(c) => data' = data]_vars

\* A compute call has fetched the value of its argument from the peers and
\* handed it to the pool, and LocalStore holds nothing.
C14_Witness ==
    \E c \in Calls :
       /\ IsCompute(c)
       /\ calls[c].pc = "exec"
       /\ calls[c].args2 = <<PeerData["y"]>>
       /\ data = <<>>

\* C15: when the gather of a compute call returns, an argument that is a
\* key of LocalStore in that step is replaced by its LocalStore value, not
\* by the fetched one, also when another handler stored the key while the
\* gather was awaited.
C15_LocalValueWinsOverFetched ==
    [][\A c \in Calls :
          (calls[c].pc = "gather" /\ calls'[c].pc = "exec")
             => \A i \in DOMAIN calls[c].args :
                   calls[c].args[i] \in DOMAIN data
                      => calls'[c].args2[i] = data[calls[c].args[i]]]_vars

\* C16: a compute call whose function was submitted has sent nothing and
\* returned nothing while the function runs; the step that takes the
\* function's outcome writes it to LocalStore[key] and sends the call's one
\* report, add_keys with keys = [key]; the status is returned only in the
\* step that takes the Center's answer to that report, so a call that has
\* returned has stored its outcome, sent exactly that one report and got
\* an answer to it.
C16_StoreThenReportThenReturn ==
    /\ [](\A c \in Calls :
            IsCompute(c)
               => /\ calls[c].pc \in {"connect", "gather", "exec"}
                     => /\ calls[c].sent = <<>>
                        /\ calls[c].result = None
                        /\ calls[c].ret = "none"
                  /\ (calls[c].ran /\ calls[c].pc \in {"report", "done", "raised"})
                     => /\ calls[c].sent = <<Rpc("add_keys", <<calls[c].key>>)>>
                        /\ calls[c].result # None
                  /\ calls[c].ret # "none"
                     => /\ calls[c].pc = "done"
                        /\ calls[c].ran
                        /\ calls[c].response \in Answers)
    /\ [][\A c \in Calls :
            /\ (IsCompute(c) /\ StoreStep(c))
                  => /\ calls[c].key \in DOMAIN data'
                     /\ data'[calls[c].key] = calls'[c].result
                     /\ calls'[c].ret = "none"
            /\ (IsCompute(c) /\ calls[c].ret = "none" /\ calls'[c].ret # "none")
                  => /\ calls[c].pc = "report"
                     /\ calls'[c].ret = calls[c].out_response
                     /\ calls'[c].sent = calls[c].sent
                     /\ data' = data]_vars

\* A compute call whose function raised has returned error, after one
\* add_keys for its key was answered, with the failure stored under its key.
C16_Witness ==
    \E c \in Calls :
       /\ IsCompute(c)
       /\ calls[c].pc = "done"
       /\ calls[c].ret = "error"
       /\ calls[c].response = "OK"
       /\ calls[c].sent = <<Rpc("add_keys", <<calls[c].key>>)>>
       /\ calls[c].key \in DOMAIN data
       /\ data[calls[c].key] = Boom

\* C17: the listener is stopped only in the step in which a terminate that
\* has sent unregister takes the Center's reply; the status becomes closed
\* only in a step that leaves the listener stopped, so a closed Worker does
\* not listen; and a status that is closed stays closed.
C17_ShutdownOrdered ==
    /\ [](status = "closed" => ~listening)
    /\ [][/\ (listening /\ ~listening')
                => \E c \in Calls :
                      /\ calls[c].op = "terminate"
                      /\ calls[c].pc = "unregister"
                      /\ calls[c].sent = <<Rpc("unregister", <<>>)>>
                      /\ calls'[c].pc = "done"
          /\ (status # "closed" /\ status' = "closed") => ~listening'
          /\ status = "closed" => status' = "closed"]_vars

\* A terminate has sent unregister, got the reply and returned; the
\* listener is stopped and the status is closed.
C17_Witness ==
    \E c \in Calls :
       /\ calls[c].op = "terminate"
       /\ calls[c].pc = "done"
       /\ calls[c].sent = <<Rpc("unregister", <<>>)>>
       /\ ~listening
       /\ status = "closed"

\* C18: while a compute call waits for its function in the pool, it has
\* produced no result; a request of any kind can be dispatched to a free
\* slot, every other handler can take its next step and every finished one
\* can be answered; and a get_data dispatched meanwhile reads LocalStore as
\* it is, without the pending result.
C18_RunningFunctionDoesNotBlock ==
    /\ [](\A c \in Calls :
            (IsCompute(c) /\ calls[c].pc = "exec")
               => /\ calls[c].result = None
                  /\ \A g \in Calls :
                        /\ (stream /\ Free(g))
                              => /\ ENABLED get_data(g, <<calls[c].key>>)
                                 /\ ENABLED update_data(g, <<>>, TRUE)
                                 /\ ENABLED delete_data(g, <<>>, TRUE)
                                 /\ ENABLED work(g, calls[c].key, <<>>)
                                 /\ ENABLED terminate(g)
                        /\ calls[g].pc = "connect" => ENABLED work_connected(g)
                        /\ calls[g].pc = "gather" => ENABLED work_gathered(g)
                        /\ calls[g].pc = "report"
                              => \/ ENABLED work_reported(g)
                                 \/ ENABLED update_data_reported(g)
                                 \/ ENABLED delete_data_reported(g)
                        /\ calls[g].pc = "unregister" => ENABLED close_reply(g)
                        /\ Over(g) => ENABLED respond(g))
    /\ [][\A c, g \in Calls :
            (/\ IsCompute(c)
             /\ calls[c].pc = "exec"
             /\ DispatchStep(g)
             /\ calls'[g].op = "get_data")
               => /\ calls'[c] = calls[c]
                  /\ Over(g)'
                  /\ calls'[g].pc = "done"
                        => calls'[g].got = GetItems(data, calls'[g].keys)
                  /\ calls[c].key \in Range(calls'[g].keys) \ DOMAIN data
                        => calls'[g].pc = "raised"]_vars

\* While a compute call waits for its function, called on a value it read
\* from LocalStore, a delete_data was dispatched, emptied LocalStore,
\* reported and returned OK.
C18_Witness ==
    \E c, g \in Calls :
       /\ IsCompute(c)
       /\ calls[c].pc = "exec"
       /\ calls[c].args2 = <<Val(1)>>
       /\ calls[g].op = "delete_data"
       /\ calls[g].report
       /\ calls[g].pc = "done"
       /\ calls[g].ret = "OK"
       /\ data = <<>>

\* C19: the step in which a compute call stores its outcome sets
\* LocalStore[key] to that outcome whatever another compute call in flight
\* has written there, and leaves every other key as it is, so the last
\* writer's outcome is the one stored and calls on different keys keep
\* their own; and every compute call that returns returns the status of its
\* own outcome, whatever LocalStore[key] holds by then.
C19_ConcurrentComputeLastWriterWins ==
    /\ [](\A c \in Calls :
            (IsCompute(c) /\ calls[c].pc = "done")
               => /\ calls[c].ret = calls[c].out_response
                  /\ calls[c].ret =
                        (IF calls[c].result.kind = "failure"
                         THEN "error" ELSE "success"))
    /\ [][\A c \in Calls :
            (IsCompute(c) /\ StoreStep(c))
               => /\ DOMAIN data' = (DOMAIN data) \cup {calls[c].key}
                  /\ \A k \in DOMAIN data' :
                        data'[k] = IF k = calls[c].key
                                   THEN calls'[c].result
                                   ELSE data[k]
                  /\ \A d \in Calls \ {c} : calls'[d] = calls[d]]_vars

\* Two compute calls for the same key are in flight, both have stored
\* their outcome, one a value and one a failure, and LocalStore holds the
\* second one's.
C19_Witness ==
    \E c, d \in Calls :
       /\ IsCompute(c) /\ IsCompute(d)
       /\ calls[c].key = calls[d].key
       /\ calls[c].pc = "report" /\ calls[d].pc = "report"
       /\ calls[c].result = Val(1)
       /\ calls[d].result = Boom
       /\ calls[c].key \in DOMAIN data
       /\ data[calls[c].key] = Boom

\* ------------------------------------------------------------------ registry

\* A Worker that has started, was acknowledged by the Center and has
\* accepted a connection, with nothing stored yet.
InitRegistry ==
    /\ status = "running"
    /\ listening = TRUE
    /\ startPc = "registered"
    /\ stream = TRUE
    /\ data = <<>>
    /\ calls = [c \in Calls |-> Idle]
    /\ has_what = {}

\* The add_keys of a compute call is delivered, taken and answered OK.
work_reported_ok(c) ==
    /\ work_reported(c)
    /\ calls'[c].response = "OK"

\* The add_keys of an update_data is delivered, taken and answered OK.
update_data_reported_ok(c) ==
    /\ update_data_reported(c)
    /\ calls'[c].pc = "done"
    /\ has_what' = Taken(has_what, calls[c].sent[1])

\* The remove_keys of a delete_data is delivered, taken and answered OK.
delete_data_reported_ok(c) ==
    /\ delete_data_reported(c)
    /\ calls'[c].pc = "done"
    /\ has_what' = Taken(has_what, calls[c].sent[1])

\* The handlers that write and report, with a Center that is reachable and
\* accepts every report; each report is its own call to the Center, so the
\* reports of two handlers in flight are answered in either order.
NextRegistry ==
    \/ \E c \in Calls : respond(c)
    \/ \E c \in Calls, k \in Keys, n \in KeyLists : work(c, k, n)
    \/ \E c \in Calls : work_connected(c)
    \/ \E c \in Calls : work_gathered(c)
    \/ \E c \in Calls : work_executed(c)
    \/ \E c \in Calls : work_reported_ok(c)
    \/ \E c \in Calls, p \in Payloads : update_data(c, p, TRUE)
    \/ \E c \in Calls : update_data_reported_ok(c)
    \/ \E c \in Calls, ks \in KeyLists : delete_data(c, ks, TRUE)
    \/ \E c \in Calls : delete_data_reported_ok(c)

SpecRegistry == InitRegistry /\ [][NextRegistry]_vars

\* C20: whenever no handler is in flight, every report having been taken
\* and answered OK, the keys the Center lists for the Worker are the keys
\* of LocalStore.
C20_RegistryMatchesStoreAtQuiescence ==
    (\A c \in Calls : calls[c].pc = "idle" \/ Over(c))
       => has_what = DOMAIN data

====
